---- MODULE Spec2Model ----
(***************************************************************************)
(* Model of notebooks/hfdemo/patch_tst_getting_started.ipynb.              *)
(*                                                                         *)
(* The notebook is a straight-line program: each statement (or group of    *)
(* statements of one cell) is one action, taken in the order of Program.   *)
(* The notebook's parameters are definitions under their source names; the *)
(* objects it builds (data frames, preprocessor, datasets, models,         *)
(* trainers, outputs) are the variables.  Data frames are row intervals    *)
(* [lo, hi) of the loaded CSV.  Losses are integers in units of 1e-6.      *)
(***************************************************************************)
EXTENDS Integers, Sequences, FiniteSets, TLC

VARIABLES
    pc,                       \* index in Program of the next statement
    log,                      \* statements completed so far, in order
    err,                      \* TRUE once a statement raised
    seed,                     \* seed given to torch / random / numpy
    n_rows,                   \* rows of the CSV file behind dataset_path
    data, train_data, valid_data, test_data,
    tsp,
    train_dataset, valid_dataset, test_dataset,
    inference_forecast_model, inference_forecast_trainer, result,
    config, model,
    trainer,
    test_metrics,             \* value of trainer.evaluate(test_dataset)
    output,                   \* value of trainer.predict(test_dataset)
    shown_shape               \* value of output.predictions[0].shape

vars == << pc, log, err, seed, n_rows, data, train_data, valid_data, test_data,
           tsp, train_dataset, valid_dataset, test_dataset,
           inference_forecast_model, inference_forecast_trainer, result,
           config, model, trainer, test_metrics, output, shown_shape >>

dataVars == << data, train_data, valid_data, test_data >>
dsVars == << train_dataset, valid_dataset, test_dataset >>
inferVars == << inference_forecast_model, inference_forecast_trainer, result >>
outVars == << test_metrics, output, shown_shape >>

(* A name that is not bound yet. *)
None == [none |-> TRUE]

Max2(a, b) == IF a >= b THEN a ELSE b
Min2(a, b) == IF a <= b THEN a ELSE b

-----------------------------------------------------------------------------
(* Bounds of the model. *)

\* Epochs explored in trainer.train(); a run still training after MaxEpoch
\* epochs is not followed further.  With the losses of EvalLossChoices every run
\* stops by early stopping within 11 epochs.
MaxEpoch == 12

\* The CSV has test_end_index .. test_end_index + MaxExtraRows rows.
MaxExtraRows == 1

-----------------------------------------------------------------------------
(* Parameters set by the notebook. *)

SEED == 42

context_length == 512
forecast_horizon == 96
patch_length == 12

id_columns == << >>
forecast_columns == << "HUFL", "HULL", "MUFL", "MULL", "LUFL", "LULL", "OT" >>

\* Python's None as an index: an open end of a slice.
NoIndex == 0 - 1

\* train_start_index = None: the beginning of the dataset.
train_start_index == NoIndex
train_end_index == 12 * 30 * 24

valid_start_index_noshift == 12 * 30 * 24
valid_start_index == 12 * 30 * 24 - context_length
valid_end_index == 12 * 30 * 24 + 4 * 30 * 24

test_start_index == 12 * 30 * 24 + 4 * 30 * 24 - context_length
test_end_index == 12 * 30 * 24 + 8 * 30 * 24

-----------------------------------------------------------------------------
(* TrainingArguments and EarlyStoppingCallback arguments of the from-scratch  *)
(* training cell.  Losses and the threshold are in units of 1e-6.             *)

num_train_epochs == 100
save_total_limit == 3
load_best_model_at_end == TRUE
greater_is_better == FALSE
early_stopping_patience == 5
\* early_stopping_threshold = 0.001
early_stopping_threshold == 1000

\* Validation losses of the recorded run, epochs 1 to 6.
RecordedValidationLoss == << 678949, 705020, 731043, 783324, 816706, 822570 >>

\* Validation losses an epoch's evaluation may return: around the first
\* recorded loss a value 500e-6 below it (an improvement within the
\* threshold), the value itself and the second recorded loss (worse, or
\* better by more than the threshold when it is the one improved on); and
\* the loss recorded for that epoch.
EvalLossChoices(ep) ==
    {678449, 678949, 705020}
        \cup (IF ep <= Len(RecordedValidationLoss)
              THEN {RecordedValidationLoss[ep]} ELSE {})

-----------------------------------------------------------------------------
(* Library objects as the notebook uses them. *)

\* df.iloc[start:end] on the rows of df; NoIndex is an open end.
select_by_index(df, start_index, end_index) ==
    LET n == df.hi - df.lo
        s == IF start_index = NoIndex THEN 0 ELSE Min2(start_index, n)
        e == IF end_index = NoIndex THEN n ELSE Min2(end_index, n)
    IN  [lo |-> df.lo + s, hi |-> df.lo + Max2(s, e)]

\* Context length the preprocessor reports when none is passed to it.
TSP_DEFAULT_CONTEXT_LENGTH == 64

\* TimeSeriesPreprocessor(timestamp_column=..., id_columns=..., target_columns=..., scaling=True)
TimeSeriesPreprocessor(ids, targets) ==
    [ context_length |-> TSP_DEFAULT_CONTEXT_LENGTH,
      id_columns |-> ids,
      target_columns |-> targets,
      scaling |-> TRUE,
      scaler |-> << >>,          \* << >>: not fitted; << s >>: statistics s
      fit_calls |-> 0 ]

\* tsp.train(df): fit the per-channel statistics on the rows of df.
tsp_train(t, df) ==
    [ t EXCEPT !.scaler = << [ fit_rows |-> df,
                               n_samples_seen_ |-> df.hi - df.lo,
                               n_features_in_ |-> Len(t.target_columns) ] >>,
               !.fit_calls = @ + 1 ]

\* tsp.preprocess(df): the rows of df scaled with the fitted statistics;
\* the preprocessor itself is left as it is.
tsp_preprocess(t, df) == [ rows |-> df, scaled_by |-> t.scaler[1] ]

\* ForecastDFDataset(frame, id_columns=, target_columns=, context_length=, prediction_length=)
ForecastDFDataset(frame, ids, targets, ctx, pred) ==
    [ rows |-> frame.rows,
      scaled_by |-> frame.scaled_by,
      id_columns |-> ids,
      target_columns |-> targets,
      context_length |-> ctx,
      prediction_length |-> pred ]

\* Number of (context window, forecast window) pairs of a dataset.
DatasetLen(ds) ==
    Max2(0, (ds.rows.hi - ds.rows.lo) - ds.context_length - ds.prediction_length + 1)

\* Rows [lo, hi) of the i-th item's context and forecast windows, i >= 0.
ContextWindow(ds, i) ==
    [ lo |-> ds.rows.lo + i, hi |-> ds.rows.lo + i + ds.context_length ]
ForecastWindow(ds, i) ==
    [ lo |-> ContextWindow(ds, i).hi,
      hi |-> ContextWindow(ds, i).hi + ds.prediction_length ]

\* Argument of tsp.train.
TspTrainInputAllData == data
TspTrainInput == train_data

\* Context length given to the three datasets.
DatasetContextLengthDefault == TSP_DEFAULT_CONTEXT_LENGTH
DatasetContextLength == context_length

\* PatchTSTConfig(...) of the from-scratch model.
PatchTSTConfigDefaultChannels ==
    [ context_length |-> context_length,
      patch_length |-> patch_length,
      num_input_channels |-> 1,
      patch_stride |-> patch_length,
      prediction_length |-> forecast_horizon ]
PatchTSTConfig ==
    [ context_length |-> context_length,
      patch_length |-> patch_length,
      num_input_channels |-> Len(forecast_columns),
      patch_stride |-> patch_length,
      prediction_length |-> forecast_horizon ]

\* Patches extracted from a context window of cfg.context_length steps.
num_patches(cfg) ==
    (Max2(cfg.context_length, cfg.patch_length) - cfg.patch_length)
        \div cfg.patch_stride + 1

\* Time steps of the context window covered by at least one patch.
patched_steps(cfg) ==
    IF cfg.patch_stride >= cfg.patch_length
    THEN num_patches(cfg) * cfg.patch_length
    ELSE (num_patches(cfg) - 1) * cfg.patch_stride + cfg.patch_length

-----------------------------------------------------------------------------
(* Trainer with the EarlyStoppingCallback, as configured by train_args.       *)

RECURSIVE SortedSeq(_)
SortedSeq(S) ==
    IF S = {} THEN << >>
    ELSE LET m == CHOOSE x \in S : \A y \in S : x <= y
         IN  << m >> \o SortedSeq(S \ {m})

SeqMin(h) == CHOOSE x \in {h[i] : i \in 1..Len(h)} : \A i \in 1..Len(h) : x <= h[i]

\* Trainer(model=, args=train_args, train_dataset=, eval_dataset=, callbacks=[early_stopping_callback])
Trainer(m, train_ds, eval_ds) ==
    [ model |-> m,
      train_dataset |-> train_ds,
      eval_dataset |-> eval_ds,
      epoch |-> 0,
      eval_losses |-> << >>,             \* eval_loss of each epoch's evaluation
      best_metric |-> << >>,             \* << >>: None
      best_model_checkpoint |-> 0,       \* 0: None; else the epoch of the checkpoint
      early_stopping_patience_counter |-> 0,
      should_training_stop |-> FALSE,
      checkpoints |-> {},                \* epochs whose checkpoint is on disk
      train_returned |-> FALSE ]

\* metric_for_best_model = "eval_loss", greater_is_better = False: lower is better.
MetricBetter(metric, best) ==
    IF greater_is_better THEN metric > best ELSE metric < best

\* EarlyStoppingCallback: the evaluation counts as an improvement when there is
\* no best metric yet, or the metric is better than the best one by more than
\* early_stopping_threshold.
IsImprovement(metric, best_metric) ==
    IF best_metric = << >> THEN TRUE
    ELSE /\ MetricBetter(metric, best_metric[1])
         /\ (IF metric >= best_metric[1] THEN metric - best_metric[1]
             ELSE best_metric[1] - metric) > early_stopping_threshold

\* early_stopping_patience: evaluations without improvement after which to stop.
PatienceExhaustedLate(counter) == counter > early_stopping_patience
PatienceExhausted(counter) == counter >= early_stopping_patience

\* save_strategy = "epoch", save_total_limit = 3, load_best_model_at_end = True:
\* the checkpoints kept after a save are the most recent ones up to the limit,
\* with the best checkpoint always among them.
rotate_checkpoints_most_recent(cps, best) ==
    LET sorted == SortedSeq(cps)
        n == Len(sorted)
        ndel == Max2(0, n - save_total_limit)
    IN  {sorted[i] : i \in (ndel + 1)..n}
rotate_checkpoints(cps, best) ==
    LET sorted == SortedSeq(cps)
        n == Len(sorted)
        others == SortedSeq(cps \ {best})
        \* the best checkpoint is moved to the last but one place
        ordered == IF load_best_model_at_end /\ best \in cps /\ n >= 2
                      /\ best # sorted[n] /\ best # sorted[n - 1]
                   THEN SubSeq(others, 1, n - 2) \o << best >> \o << others[n - 1] >>
                   ELSE sorted
        ndel == Max2(0, n - save_total_limit)
    IN  {ordered[i] : i \in (ndel + 1)..n}

\* One epoch of trainer.train(): train, evaluate on eval_dataset (the callback
\* sees the metric before the best metric is updated), save a checkpoint,
\* update the best metric and checkpoint, rotate the checkpoints.
train_epoch(tr, eval_loss) ==
    LET ep == tr.epoch + 1
        counter == IF IsImprovement(eval_loss, tr.best_metric)
                   THEN 0 ELSE tr.early_stopping_patience_counter + 1
        new_best == IF tr.best_metric = << >> THEN TRUE
                    ELSE MetricBetter(eval_loss, tr.best_metric[1])
        best_ckpt == IF new_best THEN ep ELSE tr.best_model_checkpoint
    IN  [ tr EXCEPT
            !.model = [ @ EXCEPT !.weights = ep ],
            !.epoch = ep,
            !.eval_losses = Append(@, eval_loss),
            !.early_stopping_patience_counter = counter,
            !.should_training_stop =
                IF PatienceExhausted(counter) THEN TRUE ELSE ep >= num_train_epochs,
            !.best_metric = IF new_best THEN << eval_loss >> ELSE @,
            !.best_model_checkpoint = best_ckpt,
            !.checkpoints = rotate_checkpoints(@ \cup {ep}, best_ckpt) ]

\* End of trainer.train(): with load_best_model_at_end the weights of the best
\* checkpoint are loaded, when that checkpoint is still on disk.
train_end(tr) ==
    [ tr EXCEPT
        !.model = IF /\ load_best_model_at_end
                     /\ tr.best_model_checkpoint \in tr.checkpoints
                  THEN [ @ EXCEPT !.weights = tr.best_model_checkpoint ]
                  ELSE @,
        !.train_returned = TRUE ]

\* trainer.predict(ds).predictions[0]: one forecast per dataset item, of
\* prediction_length steps and num_input_channels channels.
predictions_shape(m, ds) ==
    << DatasetLen(ds), m.config.prediction_length, m.config.num_input_channels >>

-----------------------------------------------------------------------------
(* The notebook: its statements in the order of its cells.                    *)

ProgramPreprocessBeforeFit ==
    << "set_seed", "read_csv", "select_by_index", "TimeSeriesPreprocessor",
       "ForecastDFDataset", "tsp.train",
       "from_pretrained", "inference_evaluate",
       "PatchTSTConfig", "Trainer", "trainer.train",
       "trainer.evaluate", "trainer.predict", "shape" >>
Program ==
    << "set_seed", "read_csv", "select_by_index", "TimeSeriesPreprocessor",
       "tsp.train", "ForecastDFDataset",
       "from_pretrained", "inference_evaluate",
       "PatchTSTConfig", "Trainer", "trainer.train",
       "trainer.evaluate", "trainer.predict", "shape" >>

Init ==
    /\ pc = 1
    /\ log = << >>
    /\ err = FALSE
    /\ seed = None
    /\ n_rows \in test_end_index..(test_end_index + MaxExtraRows)
    /\ data = None /\ train_data = None /\ valid_data = None /\ test_data = None
    /\ tsp = None
    /\ train_dataset = None /\ valid_dataset = None /\ test_dataset = None
    /\ inference_forecast_model = None /\ inference_forecast_trainer = None
    /\ result = None
    /\ config = None /\ model = None
    /\ trainer = None
    /\ test_metrics = None /\ output = None /\ shown_shape = None

At(stmt) == /\ ~err
            /\ pc <= Len(Program)
            /\ Program[pc] = stmt

\* The statement returns: the next one is up.
Returns(stmt) == /\ pc' = pc + 1
                 /\ log' = Append(log, stmt)
                 /\ UNCHANGED err

\* The statement raises (a name it reads is unbound, or the preprocessor is
\* not fitted): the run stops.
Raises == /\ err' = TRUE
          /\ UNCHANGED << pc, log, seed, n_rows, dataVars, tsp, dsVars, inferVars,
                          config, model, trainer, outVars >>

\* torch.manual_seed(SEED); random.seed(SEED); np.random.seed(SEED)
SetSeed ==
    /\ At("set_seed")
    /\ seed' = SEED
    /\ Returns("set_seed")
    /\ UNCHANGED << n_rows, dataVars, tsp, dsVars, inferVars, config, model,
                    trainer, outVars >>

\* data = pd.read_csv(dataset_path, parse_dates=[timestamp_column])
ReadCsv ==
    /\ At("read_csv")
    /\ data' = [lo |-> 0, hi |-> n_rows]
    /\ Returns("read_csv")
    /\ UNCHANGED << seed, n_rows, train_data, valid_data, test_data, tsp, dsVars,
                    inferVars, config, model, trainer, outVars >>

\* train_data, valid_data, test_data = select_by_index(data, ...)
SelectByIndex ==
    /\ At("select_by_index")
    /\ IF data # None
       THEN /\ train_data' = select_by_index(data, train_start_index, train_end_index)
            /\ valid_data' = select_by_index(data, valid_start_index, valid_end_index)
            /\ test_data' = select_by_index(data, test_start_index, test_end_index)
            /\ Returns("select_by_index")
            /\ UNCHANGED << seed, n_rows, data, tsp, dsVars, inferVars, config,
                            model, trainer, outVars >>
       ELSE Raises

\* tsp = TimeSeriesPreprocessor(timestamp_column=, id_columns=, target_columns=forecast_columns, scaling=True)
CreatePreprocessor ==
    /\ At("TimeSeriesPreprocessor")
    /\ tsp' = TimeSeriesPreprocessor(id_columns, forecast_columns)
    /\ Returns("TimeSeriesPreprocessor")
    /\ UNCHANGED << seed, n_rows, dataVars, dsVars, inferVars, config, model,
                    trainer, outVars >>

\* tsp.train(train_data)
TspTrain ==
    /\ At("tsp.train")
    /\ IF tsp # None /\ TspTrainInput # None
       THEN /\ tsp' = tsp_train(tsp, TspTrainInput)
            /\ Returns("tsp.train")
            /\ UNCHANGED << seed, n_rows, dataVars, dsVars, inferVars, config,
                            model, trainer, outVars >>
       ELSE Raises

\* train_dataset, valid_dataset, test_dataset =
\*     ForecastDFDataset(tsp.preprocess(...), ..., context_length=, prediction_length=)
BuildDatasets ==
    /\ At("ForecastDFDataset")
    /\ IF /\ tsp # None
          /\ train_data # None /\ valid_data # None /\ test_data # None
          /\ tsp.scaler # << >>
       THEN /\ train_dataset' =
                ForecastDFDataset(tsp_preprocess(tsp, train_data), id_columns,
                    forecast_columns, DatasetContextLength, forecast_horizon)
            /\ valid_dataset' =
                ForecastDFDataset(tsp_preprocess(tsp, valid_data), id_columns,
                    forecast_columns, DatasetContextLength, forecast_horizon)
            /\ test_dataset' =
                ForecastDFDataset(tsp_preprocess(tsp, test_data), id_columns,
                    forecast_columns, DatasetContextLength, forecast_horizon)
            /\ Returns("ForecastDFDataset")
            /\ UNCHANGED << seed, n_rows, dataVars, tsp, inferVars, config, model,
                            trainer, outVars >>
       ELSE Raises

\* inference_forecast_model = PatchTSTForPrediction.from_pretrained(...)
LoadPretrained ==
    /\ At("from_pretrained")
    /\ inference_forecast_model' = [ pretrained |-> TRUE ]
    /\ Returns("from_pretrained")
    /\ UNCHANGED << seed, n_rows, dataVars, tsp, dsVars, inference_forecast_trainer,
                    result, config, model, trainer, outVars >>

\* inference_forecast_trainer = Trainer(model=inference_forecast_model, args=train_args)
\* result = inference_forecast_trainer.evaluate(test_dataset)
InferenceEvaluate ==
    /\ At("inference_evaluate")
    /\ IF inference_forecast_model # None /\ test_dataset # None
       THEN /\ inference_forecast_trainer' = [ model |-> inference_forecast_model ]
            /\ result' = [ model |-> inference_forecast_model,
                           n_samples |-> DatasetLen(test_dataset) ]
            /\ Returns("inference_evaluate")
            /\ UNCHANGED << seed, n_rows, dataVars, tsp, dsVars,
                            inference_forecast_model, config, model, trainer,
                            outVars >>
       ELSE Raises

\* config = PatchTSTConfig(...); model = PatchTSTForPrediction(config=config)
BuildModel ==
    /\ At("PatchTSTConfig")
    /\ config' = PatchTSTConfig
    /\ model' = [ config |-> PatchTSTConfig, weights |-> 0 ]
    /\ Returns("PatchTSTConfig")
    /\ UNCHANGED << seed, n_rows, dataVars, tsp, dsVars, inferVars, trainer,
                    outVars >>

\* train_args = ...; early_stopping_callback = ...; trainer = Trainer(...)
CreateTrainer ==
    /\ At("Trainer")
    /\ IF model # None /\ train_dataset # None /\ valid_dataset # None
       THEN /\ trainer' = Trainer(model, train_dataset, valid_dataset)
            /\ Returns("Trainer")
            /\ UNCHANGED << seed, n_rows, dataVars, tsp, dsVars, inferVars, config,
                            model, outVars >>
       ELSE Raises

\* trainer.train(): one more epoch, whose evaluation returns eval_loss.
TrainEpoch ==
    /\ At("trainer.train")
    /\ trainer # None
    /\ ~trainer.should_training_stop
    /\ trainer.epoch < MaxEpoch
    /\ \E eval_loss \in EvalLossChoices(trainer.epoch + 1) :
            trainer' = train_epoch(trainer, eval_loss)
    /\ UNCHANGED << pc, log, err, seed, n_rows, dataVars, tsp, dsVars, inferVars,
                    config, model, outVars >>

\* trainer.train() returns.
TrainEnd ==
    /\ At("trainer.train")
    /\ IF trainer # None
       THEN /\ trainer.should_training_stop
            /\ trainer' = train_end(trainer)
            /\ Returns("trainer.train")
            /\ UNCHANGED << seed, n_rows, dataVars, tsp, dsVars, inferVars, config,
                            model, outVars >>
       ELSE Raises

\* trainer.evaluate(test_dataset)
EvaluateTest ==
    /\ At("trainer.evaluate")
    /\ IF trainer # None /\ test_dataset # None
       THEN /\ test_metrics' = [ weights |-> trainer.model.weights,
                                 n_samples |-> DatasetLen(test_dataset),
                                 epoch |-> trainer.epoch ]
            /\ Returns("trainer.evaluate")
            /\ UNCHANGED << seed, n_rows, dataVars, tsp, dsVars, inferVars, config,
                            model, trainer, output, shown_shape >>
       ELSE Raises

\* output = trainer.predict(test_dataset)
Predict ==
    /\ At("trainer.predict")
    /\ IF trainer # None /\ test_dataset # None
       THEN /\ output' = [ weights |-> trainer.model.weights,
                           predictions_shape |->
                               predictions_shape(trainer.model, test_dataset) ]
            /\ Returns("trainer.predict")
            /\ UNCHANGED << seed, n_rows, dataVars, tsp, dsVars, inferVars, config,
                            model, trainer, test_metrics, shown_shape >>
       ELSE Raises

\* output.predictions[0].shape
ShowShape ==
    /\ At("shape")
    /\ IF output # None
       THEN /\ shown_shape' = output.predictions_shape
            /\ Returns("shape")
            /\ UNCHANGED << seed, n_rows, dataVars, tsp, dsVars, inferVars, config,
                            model, trainer, test_metrics, output >>
       ELSE Raises

Next ==
    \/ SetSeed
    \/ ReadCsv
    \/ SelectByIndex
    \/ CreatePreprocessor
    \/ TspTrain
    \/ BuildDatasets
    \/ LoadPretrained
    \/ InferenceEvaluate
    \/ BuildModel
    \/ CreateTrainer
    \/ TrainEpoch
    \/ TrainEnd
    \/ EvaluateTest
    \/ Predict
    \/ ShowShape

Spec == Init /\ [][Next]_vars

-----------------------------------------------------------------------------
(* Properties.                                                                *)

DatasetsBuilt ==
    train_dataset # None /\ valid_dataset # None /\ test_dataset # None

\* Row of the first forecast timestamp of a dataset: the row right after the
\* first context window.
FirstForecastRow(ds) == ForecastWindow(ds, 0).lo

\* stmt a has returned before every return of stmt b
ReturnedBefore(a, b) ==
    \A j \in 1..Len(log) :
        log[j] = b => \E i \in 1..(j - 1) : log[i] = a

C2_StepsUseEarlierResults ==
    /\ ~err
    /\ ReturnedBefore("read_csv", "select_by_index")
    /\ ReturnedBefore("tsp.train", "ForecastDFDataset")
    /\ ReturnedBefore("ForecastDFDataset", "inference_evaluate")
    /\ ReturnedBefore("ForecastDFDataset", "Trainer")
    /\ ReturnedBefore("Trainer", "trainer.train")
    /\ ReturnedBefore("trainer.train", "trainer.evaluate")
    /\ ReturnedBefore("trainer.train", "trainer.predict")
    /\ ReturnedBefore("trainer.predict", "shape")
    /\ (train_data # None => data # None)
    /\ (DatasetsBuilt => tsp.scaler # << >>)
    /\ (result # None => DatasetsBuilt)
    /\ (trainer # None => DatasetsBuilt)
    /\ (test_metrics # None => trainer.train_returned)
    /\ (output # None => trainer.train_returned)
    /\ (shown_shape # None => output # None)

C2_Witness ==
    /\ log = Program
    /\ shown_shape # None
    /\ ~err

\* The evaluation of epoch k fails to improve eval_loss by more than the
\* threshold over the best eval_loss of the epochs before it.
FailsToImprove(h, k) ==
    /\ k > 1
    /\ ~(SeqMin(SubSeq(h, 1, k - 1)) - h[k] > early_stopping_threshold)

\* Epoch k ends a run of early_stopping_patience consecutive failed evaluations.
PatienceRunEndsAt(h, k) ==
    /\ k >= early_stopping_patience
    /\ \A j \in (k - early_stopping_patience + 1)..k : FailsToImprove(h, j)

\* C3: trainer.train() stops at the end of the first epoch at which 5
\* consecutive evaluations have failed to improve eval_loss by more than 0.001
\* over the best eval_loss so far, and not before (short of num_train_epochs);
\* with the recorded validation losses it stops after epoch 6.
C3_EarlyStopping ==
    trainer # None =>
        LET h == trainer.eval_losses
            n == Len(h)
        IN  /\ trainer.epoch = n
            /\ \A k \in 1..(n - 1) : ~PatienceRunEndsAt(h, k)
            /\ (n = 0 => ~trainer.should_training_stop)
            /\ (n > 0 => (trainer.should_training_stop
                            <=> (PatienceRunEndsAt(h, n) \/ n = num_train_epochs)))
            /\ (trainer.train_returned => trainer.should_training_stop)
            /\ (n >= Len(RecordedValidationLoss)
                    /\ SubSeq(h, 1, Len(RecordedValidationLoss)) = RecordedValidationLoss
                  => n = 6 /\ trainer.should_training_stop)

C3_Witness ==
    /\ trainer # None
    /\ trainer.train_returned
    /\ trainer.eval_losses = RecordedValidationLoss
    /\ trainer.epoch = 6
    /\ trainer.epoch < num_train_epochs

\* weights w are those saved at an epoch with the lowest eval_loss of the run
WeightsOfBestEpoch(w) ==
    /\ w \in 1..Len(trainer.eval_losses)
    /\ trainer.eval_losses[w] = SeqMin(trainer.eval_losses)

\* C4: when trainer.train() has returned, the model the trainer holds, and that
\* trainer.evaluate(test_dataset) and trainer.predict(test_dataset) use, is the
\* one saved at the epoch with the lowest eval_loss, also when that epoch is
\* older than the save_total_limit = 3 most recent checkpoints.
C4_BestModelAtEnd ==
    (trainer # None /\ trainer.train_returned) =>
        /\ WeightsOfBestEpoch(trainer.model.weights)
        /\ (test_metrics # None => test_metrics.weights = trainer.model.weights)
        /\ (output # None => output.weights = trainer.model.weights)

C4_Witness ==
    /\ trainer # None
    /\ trainer.train_returned
    /\ output # None
    /\ test_metrics # None
    /\ trainer.model.weights < trainer.epoch - save_total_limit + 1
    /\ output.weights = trainer.model.weights
    /\ trainer.eval_losses[trainer.epoch] > SeqMin(trainer.eval_losses)

\* C5 (as claimed): context_length is divisible by patch_length, so the
\* non-overlapping patches (patch_stride = patch_length) cover all
\* context_length time steps of the context window.
C5_ContextDivisibleByPatch ==
    config # None =>
        /\ config.patch_stride = config.patch_length
        /\ config.context_length % config.patch_length = 0
        /\ patched_steps(config) = config.context_length

\* C6: the model's number of input channels is len(forecast_columns), the
\* column list of the preprocessor and of the three datasets, and every
\* forecast of trainer.predict(test_dataset) has forecast_horizon = 96 time
\* steps and len(forecast_columns) = 7 channels.
C6_ChannelsAndHorizon ==
    /\ (tsp # None => tsp.target_columns = forecast_columns)
    /\ (DatasetsBuilt =>
            /\ train_dataset.target_columns = forecast_columns
            /\ valid_dataset.target_columns = forecast_columns
            /\ test_dataset.target_columns = forecast_columns)
    /\ (config # None => config.num_input_channels = Len(forecast_columns))
    /\ (trainer # None =>
            trainer.model.config.num_input_channels
                = Len(trainer.train_dataset.target_columns))
    /\ (output # None =>
            /\ output.predictions_shape[2] = forecast_horizon
            /\ output.predictions_shape[3] = Len(forecast_columns)
            /\ output.predictions_shape[2] = 96
            /\ output.predictions_shape[3] = 7)
    /\ (shown_shape # None => shown_shape = output.predictions_shape)

C6_Witness ==
    /\ shown_shape # None
    /\ shown_shape = << 2785, 96, 7 >>

\* C8: the scaling statistics are fitted exactly once, by tsp.train, on rows 0
\* up to train_end_index (8640 samples); the tsp.preprocess calls apply those
\* same statistics to all three datasets and leave them unchanged, so no row
\* from train_end_index on contributes to them.
C8_ScalerFittedOnTrainingRowsOnly ==
    /\ (tsp # None =>
            /\ tsp.fit_calls <= 1
            /\ (tsp.scaler = << >> <=> tsp.fit_calls = 0)
            /\ (tsp.scaler # << >> =>
                    /\ tsp.scaler[1].fit_rows = [lo |-> 0, hi |-> train_end_index]
                    /\ tsp.scaler[1].n_samples_seen_ = 8640))
    /\ (DatasetsBuilt =>
            /\ tsp.fit_calls = 1
            /\ train_dataset.scaled_by = tsp.scaler[1]
            /\ valid_dataset.scaled_by = tsp.scaler[1]
            /\ test_dataset.scaled_by = tsp.scaler[1]
            /\ valid_dataset.rows.hi > train_end_index
            /\ test_dataset.rows.lo >= train_end_index)

C8_Witness ==
    /\ DatasetsBuilt
    /\ tsp.fit_calls = 1
    /\ tsp.scaler[1].n_samples_seen_ = 8640
    /\ test_dataset.scaled_by.fit_rows.hi = train_end_index
    /\ shown_shape # None

\* C9 (as claimed): every component that records a context length holds the
\* notebook's context_length: the three datasets, the PatchTSTConfig and the
\* TimeSeriesPreprocessor.
C9_AllHoldContextLength ==
    /\ (DatasetsBuilt =>
            /\ train_dataset.context_length = context_length
            /\ valid_dataset.context_length = context_length
            /\ test_dataset.context_length = context_length)
    /\ (config # None => config.context_length = context_length)
    /\ (tsp # None => tsp.context_length = context_length)

\* C9 (amended): the three datasets and the PatchTSTConfig hold the notebook's
\* context_length (512); the TimeSeriesPreprocessor, which is built without a
\* context_length argument, holds 64.
C9_DatasetsAndConfigHoldContextLength ==
    /\ (DatasetsBuilt =>
            /\ train_dataset.context_length = context_length
            /\ valid_dataset.context_length = context_length
            /\ test_dataset.context_length = context_length
            /\ train_dataset.context_length = 512)
    /\ (config # None => config.context_length = context_length)
    /\ (trainer # None =>
            trainer.model.config.context_length = trainer.train_dataset.context_length)
    /\ (tsp # None => tsp.context_length = 64 /\ tsp.context_length # context_length)

C9_Witness ==
    /\ DatasetsBuilt
    /\ trainer # None
    /\ tsp.scaler # << >>
    /\ tsp.context_length = 64
    /\ trainer.model.config.context_length = 512

====
